---- MODULE Spec2Model ----
(***************************************************************************)
(* Model of the algorithm registry (algorithm.ts: getAlgorithm, verify)    *)
(* and of the signature codec (signature.ts: create, verify) of the jwt    *)
(* package, together with the Web Crypto engine the codec delegates to.    *)
(***************************************************************************)
EXTENDS Integers, Sequences, FiniteSets, TLC

(***************************************************************************)
(* Bounds of the model.                                                    *)
(***************************************************************************)
\* number of distinct key materials (secrets / key pairs) the caller owns
MaxHandles == 2
\* number of call slots that may be in flight at once in SpecConc
MaxCalls == 2

(***************************************************************************)
(* Values.                                                                 *)
(***************************************************************************)
\* algorithm.ts 23-37: the Algorithm union
Algorithm ==
  {"HS256", "HS384", "HS512", "PS256", "PS384", "PS512",
   "RS256", "RS384", "RS512", "ES256", "ES384", "none"}

\* strings a caller can pass at run time although the type excludes them
\* (the header of a received token is untrusted input)
ForeignIdentifiers == {"ES512", "HS128"}
Identifiers == Algorithm \cup ForeignIdentifiers

HashNames == {"SHA-256", "SHA-384", "SHA-512"}
CurveNames == {"P-256", "P-384"}
FamilyNames == {"HMAC", "RSASSA-PKCS1-v1_5", "RSA-PSS", "ECDSA"}
\* a family the registry knows nothing about
OtherFamilyNames == {"Ed25519"}

\* the key argument `null`
Null == [isNull |-> TRUE]

\* outcome of a call: a returned value or a thrown error
Return(v) == [kind |-> "return", value |-> v]
Throw(e) == [kind |-> "throw", error |-> e]
NoResult == [kind |-> "pending"]

(***************************************************************************)
(* util.ts helpers imported by algorithm.ts and signature.ts.              *)
(***************************************************************************)
isNull(x) == x = Null
isNotNull(x) == x # Null
\* isString(algorithm.hash?.name) and isString(algorithm.namedCurve): the
\* optional field is a string when it is there and undefined when it is not
hasStringHashName(algorithm) ==
  /\ "hash" \in DOMAIN algorithm
  /\ "name" \in DOMAIN algorithm.hash
hasStringNamedCurve(algorithm) == "namedCurve" \in DOMAIN algorithm

(***************************************************************************)
(* algorithm.ts                                                            *)
(***************************************************************************)
\* x >> n on non-negative 32-bit integers
ShiftRight(x, n) == x \div (2 ^ n)

\* getAlgorithm with the ES512 case left in and a default that returns a
\* definition instead of throwing
getAlgorithm_none_falls_through(alg) ==
  CASE alg = "HS256" -> Return([hash |-> [name |-> "SHA-256"], name |-> "HMAC"])
    [] alg = "HS384" -> Return([hash |-> [name |-> "SHA-384"], name |-> "HMAC"])
    [] alg = "HS512" -> Return([hash |-> [name |-> "SHA-512"], name |-> "HMAC"])
    [] alg = "PS256" -> Return([hash |-> [name |-> "SHA-256"], name |-> "RSA-PSS",
                                saltLength |-> ShiftRight(256, 3)])
    [] alg = "PS384" -> Return([hash |-> [name |-> "SHA-384"], name |-> "RSA-PSS",
                                saltLength |-> ShiftRight(384, 3)])
    [] alg = "PS512" -> Return([hash |-> [name |-> "SHA-512"], name |-> "RSA-PSS",
                                saltLength |-> ShiftRight(512, 3)])
    [] alg = "RS256" -> Return([hash |-> [name |-> "SHA-256"], name |-> "RSASSA-PKCS1-v1_5"])
    [] alg = "RS384" -> Return([hash |-> [name |-> "SHA-384"], name |-> "RSASSA-PKCS1-v1_5"])
    [] alg = "RS512" -> Return([hash |-> [name |-> "SHA-512"], name |-> "RSASSA-PKCS1-v1_5"])
    [] alg = "ES256" -> Return([hash |-> [name |-> "SHA-256"], name |-> "ECDSA",
                                namedCurve |-> "P-256"])
    [] alg = "ES384" -> Return([hash |-> [name |-> "SHA-384"], name |-> "ECDSA",
                                namedCurve |-> "P-384"])
    [] alg = "ES512" -> Return([hash |-> [name |-> "SHA-512"], name |-> "ECDSA",
                                namedCurve |-> "P-521"])
    [] OTHER -> Return([hash |-> [name |-> "SHA-256"], name |-> "HMAC"])

\* algorithm.ts 135-176
getAlgorithm(alg) ==
  CASE alg = "HS256" -> Return([hash |-> [name |-> "SHA-256"], name |-> "HMAC"])
    [] alg = "HS384" -> Return([hash |-> [name |-> "SHA-384"], name |-> "HMAC"])
    [] alg = "HS512" -> Return([hash |-> [name |-> "SHA-512"], name |-> "HMAC"])
    [] alg = "PS256" -> Return([hash |-> [name |-> "SHA-256"], name |-> "RSA-PSS",
                                saltLength |-> ShiftRight(256, 3)])
    [] alg = "PS384" -> Return([hash |-> [name |-> "SHA-384"], name |-> "RSA-PSS",
                                saltLength |-> ShiftRight(384, 3)])
    [] alg = "PS512" -> Return([hash |-> [name |-> "SHA-512"], name |-> "RSA-PSS",
                                saltLength |-> ShiftRight(512, 3)])
    [] alg = "RS256" -> Return([hash |-> [name |-> "SHA-256"], name |-> "RSASSA-PKCS1-v1_5"])
    [] alg = "RS384" -> Return([hash |-> [name |-> "SHA-384"], name |-> "RSASSA-PKCS1-v1_5"])
    [] alg = "RS512" -> Return([hash |-> [name |-> "SHA-512"], name |-> "RSASSA-PKCS1-v1_5"])
    [] alg = "ES256" -> Return([hash |-> [name |-> "SHA-256"], name |-> "ECDSA",
                                namedCurve |-> "P-256"])
    [] alg = "ES384" -> Return([hash |-> [name |-> "SHA-384"], name |-> "ECDSA",
                                namedCurve |-> "P-384"])
    [] OTHER -> Throw("UnsupportedAlgorithm")

\* algorithm.ts 93-98
isHashedKeyAlgorithm(algorithm) == hasStringHashName(algorithm)

\* algorithm.ts 100-105
isEcKeyAlgorithm(algorithm) == hasStringNamedCurve(algorithm)

\* algorithm.ts 117-128: the comparison once the key is known to be there
\* and the identifier has been resolved to algAlgorithm
compareAlgorithms(keyAlgorithm, algAlgorithm) ==
  IF keyAlgorithm.name = algAlgorithm.name
  THEN IF isHashedKeyAlgorithm(keyAlgorithm)
       THEN keyAlgorithm.hash.name = algAlgorithm.hash.name
       ELSE IF isEcKeyAlgorithm(keyAlgorithm) /\ isEcKeyAlgorithm(algAlgorithm)
            THEN keyAlgorithm.namedCurve = algAlgorithm.namedCurve
            ELSE FALSE
  ELSE FALSE

\* verify of algorithm.ts answering false where it is to throw
algorithm_verify_absent_is_false(alg, key) ==
  IF alg = "none"
  THEN IF isNotNull(key) THEN Return(FALSE) ELSE Return(TRUE)
  ELSE IF isNull(key)
       THEN Return(FALSE)
       ELSE LET algAlgorithm == getAlgorithm(alg)
            IN  IF algAlgorithm.kind = "throw"
                THEN algAlgorithm
                ELSE Return(compareAlgorithms(key.algorithm, algAlgorithm.value))

\* algorithm.ts 110-130: verify(alg, key), the spec's keyMatchesAlgorithm
algorithm_verify(alg, key) ==
  IF alg = "none"
  THEN IF isNotNull(key) THEN Throw("KeyNotAllowed") ELSE Return(TRUE)
  ELSE IF isNull(key)
       THEN Throw("KeyRequired")
       ELSE LET algAlgorithm == getAlgorithm(alg)
            IN  IF algAlgorithm.kind = "throw"
                THEN algAlgorithm
                ELSE Return(compareAlgorithms(key.algorithm, algAlgorithm.value))

(***************************************************************************)
(* Encodings used by signature.ts.                                         *)
(***************************************************************************)
\* util.ts encoder (a TextEncoder): UTF-8 of a string given as code points;
\* code points below 2048 are enough for the inputs of the model
Utf8(cp) ==
  IF cp < 128 THEN <<cp>> ELSE <<192 + (cp \div 64), 128 + (cp % 64)>>

RECURSIVE encoder_encode(_)
encoder_encode(str) ==
  IF Len(str) = 0 THEN <<>> ELSE Utf8(Head(str)) \o encoder_encode(Tail(str))

\* the base64url alphabet of @std/encoding/base64url
Base64UrlAlphabet ==
  <<"A", "B", "C", "D", "E", "F", "G", "H", "I", "J", "K", "L", "M",
    "N", "O", "P", "Q", "R", "S", "T", "U", "V", "W", "X", "Y", "Z",
    "a", "b", "c", "d", "e", "f", "g", "h", "i", "j", "k", "l", "m",
    "n", "o", "p", "q", "r", "s", "t", "u", "v", "w", "x", "y", "z",
    "0", "1", "2", "3", "4", "5", "6", "7", "8", "9", "-", "_">>

Base64UrlChar(sextet) == Base64UrlAlphabet[sextet + 1]

\* encodeBase64Url of @std/encoding/base64url: three bytes give four
\* characters, the last group is not padded; the string is the sequence of
\* its characters
RECURSIVE encodeBase64Url(_)
encodeBase64Url(bytes) ==
  IF Len(bytes) = 0 THEN <<>>
  ELSE IF Len(bytes) = 1
       THEN <<Base64UrlChar(bytes[1] \div 4),
              Base64UrlChar((bytes[1] % 4) * 16)>>
  ELSE IF Len(bytes) = 2
       THEN <<Base64UrlChar(bytes[1] \div 4),
              Base64UrlChar((bytes[1] % 4) * 16 + (bytes[2] \div 16)),
              Base64UrlChar((bytes[2] % 16) * 4)>>
  ELSE <<Base64UrlChar(bytes[1] \div 4),
         Base64UrlChar((bytes[1] % 4) * 16 + (bytes[2] \div 16)),
         Base64UrlChar((bytes[2] % 16) * 4 + (bytes[3] \div 64)),
         Base64UrlChar(bytes[3] % 64)>>
       \o encodeBase64Url(SubSeq(bytes, 4, Len(bytes)))

\* decodeBase64Url of @std/encoding/base64url, which the token layer applies
\* to the third segment of a token before it calls verify
Base64UrlSextets ==
  [ch \in {Base64UrlAlphabet[i] : i \in 1..64} |->
     (CHOOSE i \in 1..64 : Base64UrlAlphabet[i] = ch) - 1]

Base64UrlSextet(ch) == Base64UrlSextets[ch]

RECURSIVE decodeBase64Url(_)
decodeBase64Url(str) ==
  IF Len(str) < 2 THEN <<>>
  ELSE LET s1 == Base64UrlSextet(str[1])
           s2 == Base64UrlSextet(str[2])
           b1 == s1 * 4 + (s2 \div 16)
       IN  IF Len(str) = 2 THEN <<b1>>
           ELSE LET s3 == Base64UrlSextet(str[3])
                    b2 == (s2 % 16) * 16 + (s3 \div 4)
                IN  IF Len(str) = 3 THEN <<b1, b2>>
                    ELSE LET s4 == Base64UrlSextet(str[4])
                             b3 == (s3 % 4) * 64 + s4
                         IN  <<b1, b2, b3>>
                             \o decodeBase64Url(SubSeq(str, 5, Len(str)))

(***************************************************************************)
(* Keys: what a CryptoKey shows to the package and to the engine.          *)
(***************************************************************************)
Handles == 1..MaxHandles

\* key.algorithm: an object that has a hash and a namedCurve member only
\* when the key carries one ("" stands for a member that is not there)
KeyAlgorithm(name, hashName, curveName) ==
  IF hashName = "" /\ curveName = "" THEN [name |-> name]
  ELSE IF curveName = "" THEN [name |-> name, hash |-> [name |-> hashName]]
  ELSE IF hashName = "" THEN [name |-> name, namedCurve |-> curveName]
  ELSE [name |-> name, hash |-> [name |-> hashName], namedCurve |-> curveName]

KeyAlgorithms ==
  {KeyAlgorithm(n, h, c) : n \in FamilyNames \cup OtherFamilyNames,
                           h \in HashNames \cup {""},
                           c \in CurveNames \cup {""}}

\* the algorithm objects Web Crypto gives to the keys it makes: HMAC and RSA
\* keys carry a hash, EC keys a named curve, other keys neither
IsEngineKeyAlgorithm(a) ==
  CASE a.name \in {"HMAC", "RSASSA-PKCS1-v1_5", "RSA-PSS"} ->
         "hash" \in DOMAIN a /\ "namedCurve" \notin DOMAIN a
    [] a.name = "ECDSA" -> "hash" \notin DOMAIN a /\ "namedCurve" \in DOMAIN a
    [] OTHER -> "hash" \notin DOMAIN a /\ "namedCurve" \notin DOMAIN a

\* type and usages of the keys of a family: a secret key that signs and
\* verifies or only verifies, or the two halves of a key pair (the README's
\* RS384 example creates with privateKey and verifies with publicKey)
KeyShapes(name) ==
  IF name = "HMAC"
  THEN {[type |-> "secret", usages |-> {"sign", "verify"}],
        [type |-> "secret", usages |-> {"verify"}]}
  ELSE {[type |-> "private", usages |-> {"sign"}],
        [type |-> "public", usages |-> {"verify"}]}

CryptoKeys ==
  UNION {{[algorithm |-> a, type |-> s.type, usages |-> s.usages, handle |-> h] :
            s \in KeyShapes(a.name), h \in Handles} :
         a \in {d \in KeyAlgorithms : IsEngineKeyAlgorithm(d)}}

\* objects that have an algorithm member and are no CryptoKey of the engine
ForgedKeys ==
  {[algorithm |-> a, type |-> "forged", usages |-> {}, handle |-> 0] :
     a \in {d \in KeyAlgorithms : ~IsEngineKeyAlgorithm(d)}}

Keys == CryptoKeys \cup ForgedKeys

(***************************************************************************)
(* The Web Crypto engine behind crypto.subtle.sign and crypto.subtle.verify*)
(***************************************************************************)
FamilyCode(name) ==
  CASE name = "HMAC" -> 1
    [] name = "RSASSA-PKCS1-v1_5" -> 2
    [] name = "RSA-PSS" -> 3
    [] name = "ECDSA" -> 4
    [] OTHER -> 5

HashCode(hashName) ==
  CASE hashName = "SHA-256" -> 32
    [] hashName = "SHA-384" -> 48
    [] hashName = "SHA-512" -> 64
    [] OTHER -> 0

\* HMAC and RSA keys sign with the hash of the key, ECDSA with the hash of
\* the algorithm parameter
HashUsed(algorithm, key) ==
  IF algorithm.name = "ECDSA" THEN algorithm.hash.name
  ELSE key.algorithm.hash.name

\* the curve of an EC key is part of its material
CurveCode(key) ==
  IF "namedCurve" \in DOMAIN key.algorithm
  THEN (IF key.algorithm.namedCurve = "P-256" THEN 1 ELSE 2)
  ELSE 0

SaltUsed(algorithm) ==
  IF "saltLength" \in DOMAIN algorithm THEN algorithm.saltLength ELSE 0

\* RSA-PSS and ECDSA draw a fresh salt or nonce for every signature
Nonces(name) == IF name \in {"RSA-PSS", "ECDSA"} THEN {1, 2} ELSE {0}

\* the signatures of data that verify under the key material, as bytes
ValidSignatures(algorithm, key, data) ==
  {<<key.handle, FamilyCode(algorithm.name), CurveCode(key),
     HashCode(HashUsed(algorithm, key)), SaltUsed(algorithm), n>> \o data :
     n \in Nonces(algorithm.name)}

\* the checks of SubtleCrypto.sign / verify before the operation runs
EngineRejection(algorithm, key, usage) ==
  IF isNull(key) THEN "TypeError"
  ELSE IF key.type = "forged" THEN "TypeError"
  ELSE IF algorithm.name # key.algorithm.name THEN "InvalidAccessError"
  ELSE IF usage \notin key.usages THEN "InvalidAccessError"
  ELSE ""

\* crypto.subtle.sign: the outcomes the promise can settle with
crypto_subtle_sign(algorithm, key, data) ==
  IF EngineRejection(algorithm, key, "sign") # ""
  THEN {Throw(EngineRejection(algorithm, key, "sign"))}
  ELSE {Return(s) : s \in ValidSignatures(algorithm, key, data)}

\* crypto.subtle.verify
crypto_subtle_verify(algorithm, key, signature, data) ==
  IF EngineRejection(algorithm, key, "verify") # ""
  THEN {Throw(EngineRejection(algorithm, key, "verify"))}
  ELSE {Return(signature \in ValidSignatures(algorithm, key, data))}

(***************************************************************************)
(* State: the calls in flight and the token the caller holds.              *)
(***************************************************************************)
VARIABLES
  calls   \* call slot -> frame of the call running in it

vars == <<calls>>

NoToken == [issued |-> FALSE]
NoRequest == [op |-> "none"]

\* a slot in which no call runs
IdleCall ==
  [pc |-> "idle", op |-> "none", alg |-> "none", key |-> Null,
   signature |-> <<>>, signingInput |-> <<>>, origin |-> NoToken,
   result |-> NoResult, resolveCalls |-> 0, engineCalls |-> 0,
   request |-> NoRequest]

\* the engine operation a call awaits
EngineRequest(op, algorithm, key, signature, data) ==
  [op |-> op, algorithm |-> algorithm, key |-> key, signature |-> signature,
   data |-> data, settled |-> NoResult]

(***************************************************************************)
(* signature.ts                                                            *)
(***************************************************************************)
\* verify that resolves the identifier before it looks at the key
signature_verify_checks_key_after_engine(signature, key, alg, signingInput) ==
  LET frame == [IdleCall EXCEPT !.op = "verify", !.alg = alg, !.key = key,
                                !.signature = signature,
                                !.signingInput = signingInput]
      algorithm == getAlgorithm(alg)
  IN  IF algorithm.kind = "throw"
      THEN [frame EXCEPT !.pc = "done", !.resolveCalls = 1,
                         !.result = IF isNull(key)
                                    THEN Return(Len(signature) = 0)
                                    ELSE algorithm]
      ELSE [frame EXCEPT !.pc = "awaiting", !.resolveCalls = 1,
                         !.engineCalls = 1,
                         !.request = EngineRequest("verify", algorithm.value,
                                       key, signature,
                                       encoder_encode(signingInput))]

\* verify that hands the engine an empty message
signature_verify_drops_signingInput(signature, key, alg, signingInput) ==
  LET frame == [IdleCall EXCEPT !.op = "verify", !.alg = alg, !.key = key,
                                !.signature = signature,
                                !.signingInput = signingInput]
  IN  IF isNull(key)
      THEN [frame EXCEPT !.pc = "done",
                         !.result = Return(Len(signature) = 0)]
      ELSE LET algorithm == getAlgorithm(alg)
           IN  IF algorithm.kind = "throw"
               THEN [frame EXCEPT !.pc = "done", !.resolveCalls = 1,
                                  !.result = algorithm]
               ELSE [frame EXCEPT !.pc = "awaiting", !.resolveCalls = 1,
                                  !.engineCalls = 1,
                                  !.request =
                                    EngineRequest("verify", algorithm.value,
                                      key, signature,
                                      encoder_encode(<<>>))]

\* signature.ts 7-19: verify up to its first suspension
signature_verify(signature, key, alg, signingInput) ==
  LET frame == [IdleCall EXCEPT !.op = "verify", !.alg = alg, !.key = key,
                                !.signature = signature,
                                !.signingInput = signingInput]
  IN  IF isNull(key)
      THEN [frame EXCEPT !.pc = "done",
                         !.result = Return(Len(signature) = 0)]
      ELSE LET algorithm == getAlgorithm(alg)
           IN  IF algorithm.kind = "throw"
               THEN [frame EXCEPT !.pc = "done", !.resolveCalls = 1,
                                  !.result = algorithm]
               ELSE [frame EXCEPT !.pc = "awaiting", !.resolveCalls = 1,
                                  !.engineCalls = 1,
                                  !.request =
                                    EngineRequest("verify", algorithm.value,
                                      key, signature,
                                      encoder_encode(signingInput))]

\* create that signs with HS256 when the identifier is none
create_none_signs_with_default(alg, key, signingInput) ==
  LET frame == [IdleCall EXCEPT !.op = "create", !.alg = alg, !.key = key,
                                !.signingInput = signingInput]
  IN  IF isNull(key)
      THEN [frame EXCEPT !.pc = "done", !.result = Return(<<>>)]
      ELSE LET algorithm == IF alg = "none" THEN getAlgorithm("HS256")
                            ELSE getAlgorithm(alg)
           IN  IF algorithm.kind = "throw"
               THEN [frame EXCEPT !.pc = "done", !.resolveCalls = 1,
                                  !.result = algorithm]
               ELSE [frame EXCEPT !.pc = "awaiting", !.resolveCalls = 1,
                                  !.engineCalls = 1,
                                  !.request =
                                    EngineRequest("sign", algorithm.value,
                                      key, <<>>,
                                      encoder_encode(signingInput))]

\* create without the test of the key
create_signs_without_key(alg, key, signingInput) ==
  LET frame == [IdleCall EXCEPT !.op = "create", !.alg = alg, !.key = key,
                                !.signingInput = signingInput]
      algorithm == getAlgorithm(alg)
  IN  IF algorithm.kind = "throw"
      THEN [frame EXCEPT !.pc = "done", !.resolveCalls = 1,
                         !.result = algorithm]
      ELSE [frame EXCEPT !.pc = "awaiting", !.resolveCalls = 1,
                         !.engineCalls = 1,
                         !.request = EngineRequest("sign", algorithm.value,
                                       key, <<>>,
                                       encoder_encode(signingInput))]

\* signature.ts 21-35: create up to its first suspension
create(alg, key, signingInput) ==
  LET frame == [IdleCall EXCEPT !.op = "create", !.alg = alg, !.key = key,
                                !.signingInput = signingInput]
  IN  IF isNull(key)
      THEN [frame EXCEPT !.pc = "done", !.result = Return(<<>>)]
      ELSE LET algorithm == getAlgorithm(alg)
           IN  IF algorithm.kind = "throw"
               THEN [frame EXCEPT !.pc = "done", !.resolveCalls = 1,
                                  !.result = algorithm]
               ELSE [frame EXCEPT !.pc = "awaiting", !.resolveCalls = 1,
                                  !.engineCalls = 1,
                                  !.request =
                                    EngineRequest("sign", algorithm.value,
                                      key, <<>>,
                                      encoder_encode(signingInput))]

\* the outcomes the engine can settle a request with
EngineOutcomes(request) ==
  IF request.op = "sign"
  THEN crypto_subtle_sign(request.algorithm, request.key, request.data)
  ELSE crypto_subtle_verify(request.algorithm, request.key,
                            request.signature, request.data)

\* a continuation that turns a rejection of the engine into a value
resume_masks_engine_failure(frame) ==
  LET settled == frame.request.settled
  IN  [frame EXCEPT !.pc = "done",
         !.result =
           IF frame.op = "create"
           THEN IF settled.kind = "return"
                THEN Return(encodeBase64Url(settled.value))
                ELSE Return(<<>>)
           ELSE IF settled.kind = "return" THEN settled ELSE Return(FALSE)]

\* a continuation that asks the engine once more after a rejection
resume_retries_engine_failure(frame) ==
  LET settled == frame.request.settled
  IN  IF settled.kind = "throw" /\ frame.engineCalls < 2
      THEN [frame EXCEPT !.engineCalls = @ + 1,
                         !.request.settled = NoResult]
      ELSE [frame EXCEPT !.pc = "done",
              !.result =
                IF frame.op = "create" /\ settled.kind = "return"
                THEN Return(encodeBase64Url(settled.value))
                ELSE settled]

\* signature.ts 13 and 26-34: what follows the await once the engine has
\* settled: verify returns the verdict, create encodes the signature bytes,
\* and a rejection of the engine rejects the call
resume(frame) ==
  LET settled == frame.request.settled
  IN  [frame EXCEPT !.pc = "done",
         !.result =
           IF frame.op = "create" /\ settled.kind = "return"
           THEN Return(encodeBase64Url(settled.value))
           ELSE settled]

(***************************************************************************)
(* Actions.                                                                *)
(***************************************************************************)
\* a caller resolves an identifier
CallGetAlgorithm(c, alg) ==
  /\ calls[c].pc = "idle"
  /\ calls' = [calls EXCEPT ![c] =
                 [IdleCall EXCEPT !.pc = "done", !.op = "getAlgorithm",
                                  !.alg = alg, !.resolveCalls = 1,
                                  !.result = getAlgorithm(alg)]]

\* a caller checks a key against an identifier
CallAlgorithmVerify(c, alg, key) ==
  /\ calls[c].pc = "idle"
  /\ calls' = [calls EXCEPT ![c] =
                 [IdleCall EXCEPT !.pc = "done", !.op = "algorithmVerify",
                                  !.alg = alg, !.key = key,
                                  !.result = algorithm_verify(alg, key)]]

\* a caller asks for a signature
CallCreate(c, alg, key, signingInput) ==
  /\ calls[c].pc = "idle"
  /\ calls' = [calls EXCEPT ![c] = create(alg, key, signingInput)]

\* a caller checks a signature that comes from anywhere
CallVerify(c, signature, key, alg, signingInput) ==
  /\ calls[c].pc = "idle"
  /\ calls' = [calls EXCEPT ![c] =
                 signature_verify(signature, key, alg, signingInput)]

\* one byte of a signature changed
Tamper(bytes) ==
  IF Len(bytes) = 0 THEN <<255>>
  ELSE [bytes EXCEPT ![Len(bytes)] = (@ + 1) % 256]

\* what a finished create call leaves in the hands of its caller
TokenOf(frame) ==
  [issued |-> TRUE, alg |-> frame.alg, key |-> frame.key,
   signingInput |-> frame.signingInput, signature |-> frame.result.value]

\* every signature the engine can give for what the token was made from
SignaturesFor(tok) ==
  ValidSignatures(getAlgorithm(tok.alg).value, tok.key,
                  encoder_encode(tok.signingInput))

\* what a caller can present as the signature of the token it holds: the one
\* it got, that one altered, none, and one of another sign call
TokenSignatures(tok) ==
  {decodeBase64Url(tok.signature), Tamper(decodeBase64Url(tok.signature)),
   <<>>}
  \cup (IF isNull(tok.key) THEN {} ELSE SignaturesFor(tok))

\* the caller of a create call that returned checks the signature it got, as
\* it is or altered, with some key and for some signing input
CallVerifyToken(c, signature, key, alg, signingInput) ==
  /\ calls[c].pc = "done"
  /\ calls[c].op = "create"
  /\ calls[c].result.kind = "return"
  /\ signature \in TokenSignatures(TokenOf(calls[c]))
  /\ calls' = [calls EXCEPT ![c] =
                 [signature_verify(signature, key, alg, signingInput)
                    EXCEPT !.origin = TokenOf(calls[c])]]

\* the engine settles the operation a call awaits
EngineSettle(c) ==
  /\ calls[c].pc = "awaiting"
  /\ calls[c].request.settled.kind = "pending"
  /\ \E outcome \in EngineOutcomes(calls[c].request) :
       calls' = [calls EXCEPT ![c].request.settled = outcome]

\* a continuation that reads the settlement from a place the calls share
Resume_takes_latest_settlement(c) ==
  /\ calls[c].pc = "awaiting"
  /\ calls[c].request.settled.kind # "pending"
  /\ \E d \in DOMAIN calls :
       /\ calls[d].pc = "awaiting"
       /\ calls[d].request.op = calls[c].request.op
       /\ calls[d].request.settled.kind # "pending"
       /\ calls' = [calls EXCEPT ![c] =
                      resume([calls[c] EXCEPT !.request.settled =
                                calls[d].request.settled])]

\* the call continues after its await
Resume(c) ==
  /\ calls[c].pc = "awaiting"
  /\ calls[c].request.settled.kind # "pending"
  /\ calls' = [calls EXCEPT ![c] = resume(calls[c])]

\* the caller takes the outcome of a finished call
TakeResult(c) ==
  /\ calls[c].pc = "done"
  /\ calls' = [calls EXCEPT ![c] = IdleCall]

(***************************************************************************)
(* Inputs and specifications.                                              *)
(***************************************************************************)
\* "e-acute" and "e-acute x" as code points
SigningInputs == {<<233>>, <<233, 120>>}

\* signatures that come from nowhere: none at all, and one stray byte
StraySignatures == {<<>>, <<7>>}

\* the keys a caller tries against the token it holds: those of its family
KeysLike(key) ==
  IF key = Null THEN {Null}
  ELSE {k \in CryptoKeys : k.algorithm.name = key.algorithm.name}

Init == calls = [c \in {1} |-> IdleCall]

Next ==
  \E c \in DOMAIN calls :
    \/ /\ calls[c].pc = "idle"
       /\ \E alg \in Identifiers : CallGetAlgorithm(c, alg)
    \/ /\ calls[c].pc = "idle"
       /\ \E alg \in Identifiers, key \in Keys \cup {Null} :
            CallAlgorithmVerify(c, alg, key)
    \/ /\ calls[c].pc = "idle"
       /\ \E alg \in Identifiers, key \in Keys \cup {Null},
             signingInput \in SigningInputs :
            CallCreate(c, alg, key, signingInput)
    \/ /\ calls[c].pc = "idle"
       /\ \E signature \in StraySignatures, key \in Keys \cup {Null},
             alg \in Identifiers, signingInput \in SigningInputs :
            CallVerify(c, signature, key, alg, signingInput)
    \/ /\ calls[c].pc = "done" /\ calls[c].op = "create"
       /\ calls[c].result.kind = "return"
       /\ \E signature \in TokenSignatures(TokenOf(calls[c])),
             key \in KeysLike(calls[c].key),
             signingInput \in SigningInputs :
            CallVerifyToken(c, signature, key, calls[c].alg, signingInput)
    \/ EngineSettle(c)
    \/ Resume(c)
    \/ TakeResult(c)

Spec == Init /\ [][Next]_vars

(***************************************************************************)
(* Several calls in flight at once, over a smaller choice of inputs.       *)
(***************************************************************************)
ConcAlgorithms == {"HS256", "PS256", "none"}

ConcKeys ==
  {k \in CryptoKeys :
     /\ k.handle = 1
     /\ k.algorithm \in {KeyAlgorithm("HMAC", "SHA-256", ""),
                         KeyAlgorithm("RSA-PSS", "SHA-256", "")}
     /\ k.usages # {"verify"}}

ConcInputs == {<<233>>}

InitConc == calls = [c \in 1..MaxCalls |-> IdleCall]

NextConc ==
  \E c \in DOMAIN calls :
    \/ /\ calls[c].pc = "idle"
       /\ \E alg \in ConcAlgorithms, key \in ConcKeys \cup {Null},
             signingInput \in ConcInputs :
            CallCreate(c, alg, key, signingInput)
    \/ /\ calls[c].pc = "idle"
       /\ \E signature \in StraySignatures, key \in ConcKeys \cup {Null},
             alg \in ConcAlgorithms, signingInput \in ConcInputs :
            CallVerify(c, signature, key, alg, signingInput)
    \/ EngineSettle(c)
    \/ Resume(c)
    \/ TakeResult(c)

SpecConc == InitConc /\ [][NextConc]_vars

(***************************************************************************)
(* Properties.                                                             *)
(***************************************************************************)
Slots == DOMAIN calls
SupportedAlgorithms == Algorithm \ {"none"}
HashFamilies == {"HMAC", "RSASSA-PKCS1-v1_5", "RSA-PSS"}

\* the compatibility the registry is to decide: same family, and the same
\* hash for the hash-parameterized families, the same curve for ECDSA
FamilyDrivenMatch(keyAlgorithm, expected) ==
  /\ keyAlgorithm.name = expected.name
  /\ expected.name \in HashFamilies =>
       /\ "hash" \in DOMAIN keyAlgorithm
       /\ keyAlgorithm.hash.name = expected.hash.name
  /\ expected.name = "ECDSA" =>
       /\ "namedCurve" \in DOMAIN keyAlgorithm
       /\ keyAlgorithm.namedCurve = expected.namedCurve

\* C1: for a supported identifier other than none and a key that is there,
\* the key check returns true exactly when the family names agree and the
\* hash (HMAC, RSASSA-PKCS1-v1_5, RSA-PSS) or the named curve (ECDSA) agrees,
\* and false in every other case, whatever members the key's algorithm has.
C1_KeyMatchesByFamily ==
  \A c \in Slots :
    ( /\ calls[c].pc = "done"
      /\ calls[c].op = "algorithmVerify"
      /\ calls[c].alg \in SupportedAlgorithms
      /\ calls[c].key # Null )
    => calls[c].result =
         Return(FamilyDrivenMatch(calls[c].key.algorithm,
                                  getAlgorithm(calls[c].alg).value))

\* C2 as stated, for the keys the engine makes: the engine runs for a call
\* only if the key check holds for the call's identifier and key.
C2_EngineOnlyForMatchingKey ==
  \A c \in Slots :
    (calls[c].engineCalls > 0 /\ calls[c].key \in CryptoKeys)
    => algorithm_verify(calls[c].alg, calls[c].key) = Return(TRUE)

\* C2 as amended: create and verify call the engine exactly when the key is
\* there and the identifier is a supported one other than none; whether the
\* key matches the identifier plays no part.
C2_EngineIffKeyAndSupported ==
  \A c \in Slots :
    calls[c].op \in {"create", "verify"}
    => ( calls[c].engineCalls > 0
         <=> (calls[c].key # Null /\ calls[c].alg \in SupportedAlgorithms) )

\* the engine signed for HS256 with an HMAC key of SHA-384, which the key
\* check finds incompatible
C2_EngineSignedForMismatchedKey ==
  \E c \in Slots :
    /\ calls[c].op = "create"
    /\ calls[c].alg = "HS256"
    /\ calls[c].engineCalls > 0
    /\ calls[c].request.settled.kind = "return"
    /\ algorithm_verify(calls[c].alg, calls[c].key) = Return(FALSE)

\* C3: the key check settles presence first: none without a key is true,
\* none with a key fails with KeyNotAllowed, any other identifier without a
\* key fails with KeyRequired, and a supported identifier with a key never
\* fails.
C3_PresenceDecidedFirst ==
  \A c \in Slots :
    (calls[c].pc = "done" /\ calls[c].op = "algorithmVerify")
    => /\ (calls[c].alg = "none" /\ calls[c].key = Null)
            => calls[c].result = Return(TRUE)
       /\ (calls[c].alg = "none" /\ calls[c].key # Null)
            => calls[c].result = Throw("KeyNotAllowed")
       /\ (calls[c].alg # "none" /\ calls[c].key = Null)
            => calls[c].result = Throw("KeyRequired")
       /\ (calls[c].alg \in SupportedAlgorithms /\ calls[c].key # Null)
            => calls[c].result.kind = "return"

\* the key check failed for none with a key
C3_NoneWithKeyRejected ==
  \E c \in Slots :
    /\ calls[c].pc = "done"
    /\ calls[c].op = "algorithmVerify"
    /\ calls[c].alg = "none"
    /\ calls[c].key # Null
    /\ calls[c].result.kind = "throw"

\* the table of the primitive definitions
TableFamily(alg) ==
  CASE alg \in {"HS256", "HS384", "HS512"} -> "HMAC"
    [] alg \in {"RS256", "RS384", "RS512"} -> "RSASSA-PKCS1-v1_5"
    [] alg \in {"PS256", "PS384", "PS512"} -> "RSA-PSS"
    [] alg \in {"ES256", "ES384"} -> "ECDSA"

TableHashBits(alg) ==
  CASE alg \in {"HS256", "RS256", "PS256", "ES256"} -> 256
    [] alg \in {"HS384", "RS384", "PS384", "ES384"} -> 384
    [] alg \in {"HS512", "RS512", "PS512"} -> 512

TableHash(alg) ==
  CASE TableHashBits(alg) = 256 -> "SHA-256"
    [] TableHashBits(alg) = 384 -> "SHA-384"
    [] TableHashBits(alg) = 512 -> "SHA-512"

TableDefinition(alg) ==
  CASE TableFamily(alg) = "RSA-PSS" ->
         [name |-> "RSA-PSS", hash |-> [name |-> TableHash(alg)],
          saltLength |-> TableHashBits(alg) \div 8]
    [] TableFamily(alg) = "ECDSA" ->
         [name |-> "ECDSA", hash |-> [name |-> TableHash(alg)],
          namedCurve |-> IF alg = "ES256" THEN "P-256" ELSE "P-384"]
    [] OTHER -> [name |-> TableFamily(alg), hash |-> [name |-> TableHash(alg)]]

\* C4: resolving one of the eleven identifiers other than none gives the
\* definition of the table (family, hash, salt length of hash bits / 8 for
\* RSA-PSS, curve for ECDSA); none, ES512 and any other value fail with
\* UnsupportedAlgorithm.
C4_ResolveFollowsTable ==
  \A c \in Slots :
    (calls[c].pc = "done" /\ calls[c].op = "getAlgorithm")
    => calls[c].result =
         IF calls[c].alg \in SupportedAlgorithms
         THEN Return(TableDefinition(calls[c].alg))
         ELSE Throw("UnsupportedAlgorithm")

\* PS384 was resolved, with a salt of 48 bytes
C4_ResolvedPS384 ==
  \E c \in Slots :
    /\ calls[c].pc = "done"
    /\ calls[c].op = "getAlgorithm"
    /\ calls[c].alg = "PS384"
    /\ calls[c].result.kind = "return"
    /\ calls[c].result.value.saltLength = 48

\* C5: verify without a key returns whether the signature is empty, for any
\* identifier and input, without resolving the identifier, without the
\* engine and without failing.
C5_VerifyWithoutKey ==
  \A c \in Slots :
    (calls[c].op = "verify" /\ calls[c].key = Null)
    => /\ calls[c].pc = "done"
       /\ calls[c].result = Return(Len(calls[c].signature) = 0)
       /\ calls[c].engineCalls = 0
       /\ calls[c].resolveCalls = 0

\* verify without a key, for none and a signature that is not empty, is false
C5_NonEmptyWithoutKeyIsFalse ==
  \E c \in Slots :
    /\ calls[c].op = "verify"
    /\ calls[c].key = Null
    /\ calls[c].alg = "none"
    /\ Len(calls[c].signature) > 0
    /\ calls[c].result = Return(FALSE)

\* C6: create for none never calls the engine, whatever the key, and without
\* a key it returns the empty signature.
C6_CreateNoneKeepsOffEngine ==
  \A c \in Slots :
    (calls[c].op = "create" /\ calls[c].alg = "none")
    => /\ calls[c].engineCalls = 0
       /\ calls[c].pc = "done"
       /\ calls[c].key = Null => calls[c].result = Return(<<>>)

\* create for none with a key ended without the engine
C6_CreateNoneWithKey ==
  \E c \in Slots :
    /\ calls[c].op = "create"
    /\ calls[c].alg = "none"
    /\ calls[c].key # Null
    /\ calls[c].pc = "done"
    /\ calls[c].engineCalls = 0

\* a finished verify call on what a create call returned for a supported
\* identifier and a compatible key, with the identifier it was signed for
IsRoundTrip(frame) ==
  /\ frame.pc = "done"
  /\ frame.op = "verify"
  /\ frame.origin # NoToken
  /\ frame.origin.alg \in SupportedAlgorithms
  /\ algorithm_verify(frame.origin.alg, frame.origin.key) = Return(TRUE)
  /\ frame.alg = frame.origin.alg

\* the key holds the material and the algorithm of the key that signed
SameKeyMaterial(frame) ==
  /\ frame.key.handle = frame.origin.key.handle
  /\ frame.key.algorithm = frame.origin.key.algorithm

\* C7 as stated: verify on the signature create returned, with the key that
\* signed and the same identifier and input, returns true, and it returns
\* false when the signature, the input or the key differs.
C7_RoundTripWithSigningKey ==
  \A c \in Slots :
    IsRoundTrip(calls[c])
    => calls[c].result =
         Return(/\ SameKeyMaterial(calls[c])
                /\ calls[c].signingInput = calls[c].origin.signingInput
                /\ calls[c].signature =
                     decodeBase64Url(calls[c].origin.signature))

\* C7 as amended: with a key that may verify (an HMAC key with the verify
\* usage, the public key of a pair) verify returns true exactly when the key
\* holds the material that signed, the input is the same and the signature is
\* one the engine gives for that key and input; with a key that may not
\* verify (the private key that signed) the call fails.
C7_RoundTripWithVerifyingKey ==
  \A c \in Slots :
    IsRoundTrip(calls[c])
    => IF "verify" \in calls[c].key.usages
       THEN calls[c].result =
              Return(/\ SameKeyMaterial(calls[c])
                     /\ calls[c].signingInput = calls[c].origin.signingInput
                     /\ calls[c].signature \in SignaturesFor(calls[c].origin))
       ELSE calls[c].result.kind = "throw"

\* the signature of a private RSA-PSS key verified under the public key
C7_PublicKeyVerified ==
  \E c \in Slots :
    /\ IsRoundTrip(calls[c])
    /\ calls[c].alg = "PS512"
    /\ calls[c].origin.key.type = "private"
    /\ calls[c].key.type = "public"
    /\ calls[c].signature = decodeBase64Url(calls[c].origin.signature)
    /\ calls[c].result = Return(TRUE)

\* C8: a failure of the engine ends the call with that error, never with a
\* value; a signature the engine finds invalid gives false, not an error.
C8_EngineFailureSurfaces ==
  \A c \in Slots :
    (calls[c].pc = "done" /\ calls[c].request # NoRequest)
    => /\ calls[c].request.settled.kind = "throw"
            => calls[c].result = calls[c].request.settled
       /\ (calls[c].op = "verify" /\ calls[c].request.settled = Return(FALSE))
            => calls[c].result = Return(FALSE)

\* a create call ended with the error of the engine
C8_SignFailed ==
  \E c \in Slots :
    /\ calls[c].pc = "done"
    /\ calls[c].op = "create"
    /\ calls[c].request # NoRequest
    /\ calls[c].request.settled.kind = "throw"
    /\ calls[c].result.kind = "throw"

\* C9: with a key and a supported identifier a call invokes the engine once,
\* with the resolved definition, the key, the signature (verify) and the
\* encoded signing input, never a second time, and verify returns the
\* engine's verdict as it is.
C9_EngineOnceWithArguments ==
  \A c \in Slots :
    ( /\ calls[c].op \in {"create", "verify"}
      /\ calls[c].key # Null
      /\ calls[c].alg \in SupportedAlgorithms )
    => /\ calls[c].engineCalls = 1
       /\ calls[c].request.op =
            (IF calls[c].op = "create" THEN "sign" ELSE "verify")
       /\ calls[c].request.algorithm = getAlgorithm(calls[c].alg).value
       /\ calls[c].request.key = calls[c].key
       /\ calls[c].request.signature = calls[c].signature
       /\ calls[c].request.data = encoder_encode(calls[c].signingInput)
       /\ (calls[c].pc = "done" /\ calls[c].op = "verify")
            => calls[c].result = calls[c].request.settled

\* a verify call ended on a failure of the engine after one invocation
C9_FailedVerifyNotRetried ==
  \E c \in Slots :
    /\ calls[c].pc = "done"
    /\ calls[c].op = "verify"
    /\ calls[c].request # NoRequest
    /\ calls[c].request.settled.kind = "throw"
    /\ calls[c].engineCalls = 1

\* the outcomes of a call that runs from start to end with nothing between
AloneResults(frame) ==
  LET start == IF frame.op = "create"
               THEN create(frame.alg, frame.key, frame.signingInput)
               ELSE signature_verify(frame.signature, frame.key, frame.alg,
                                     frame.signingInput)
  IN  IF start.pc = "done" THEN {start.result}
      ELSE {resume([start EXCEPT !.request.settled = outcome]).result :
              outcome \in EngineOutcomes(start.request)}

\* C10: whatever the interleaving of the calls in flight, the outcome of a
\* call is one the same call has when it runs alone on the same inputs.
C10_ResultAsWhenAlone ==
  \A c \in Slots :
    (calls[c].pc = "done" /\ calls[c].op \in {"create", "verify"})
    => calls[c].result \in AloneResults(calls[c])

\* a call ended while the engine had settled another call still suspended
C10_Interleaved ==
  \E c, d \in Slots :
    /\ c # d
    /\ calls[c].pc = "done"
    /\ calls[c].engineCalls = 1
    /\ calls[d].pc = "awaiting"
    /\ calls[d].request.settled.kind # "pending"

====
